---- MODULE Spec2Model ----
(***************************************************************************)
(* Verification model of the stock-dashboard repository:                   *)
(*   backfill.py          builds nse_history_data.csv and publishes it     *)
(*   fetch_and_upload.py  publishes latest_nse_data.csv                    *)
(*   app.py               loads both files, resolves the columns, averages *)
(*                        the delivery percent and filters the 80-98 list  *)
(* Google Drive is the shared store; every files().list / update / create  *)
(* / get_media call of the source is one step of the process issuing it.   *)
(***************************************************************************)
EXTENDS Integers, Sequences, FiniteSets, TLC

VARIABLES
    drive,          \* Drive: the set of file records
    nextId,         \* Drive: next file id (also stands for createdTime)
    today,          \* date.today(), a day number (day % 7 is Python's weekday())
    market,         \* what the exchange serves for a trade date
    wpc,            \* backfill.py: position of the script
    current_date,   \* backfill.py: loop variable
    full_data,      \* backfill.py: the frame collected by this run
    wfiles,         \* backfill.py: result of files().list
    rpc,            \* app.py load_history_data: position
    rfile,          \* app.py load_history_data: file_id chosen after the list
    downloaded,     \* app.py load_history_data: the bytes get_media returned
    published,      \* history: every complete csv_buffer a run handed to Drive
    history_file,   \* app.py: what load_history_data finds (found, raw csv rows)
    daily_file,     \* app.py: the raw csv rows load_daily_data returns
    timeframe,      \* app.py: the "Analyze Over" selectbox
    history_data,   \* app.py: result of load_history_data
    daily_data,     \* app.py: daily_data after line 161
    analysis_df,    \* app.py: analysis_df
    filtered_df,    \* app.py: filtered_df
    apc,            \* app.py: position of the script run
    raw_columns,    \* app.py: header row of the csv handed to both loaders
    hist_columns,   \* app.py load_history_data: df.columns
    daily_columns,  \* app.py: daily_data.columns
    daily_deliv_col, \* app.py: daily_deliv_col
    page,           \* app.py: what the run ends with on the page
    cpc,            \* app.py: position of the column resolution
    upc,            \* fetch_and_upload.py: position of upload_to_drive
    udf,            \* fetch_and_upload.py: the frame written to latest_nse_data.csv
    ufiles,         \* fetch_and_upload.py: result of files().list
    runs,           \* fetch_and_upload.py: number of runs started
    last_written,   \* daily file: id and frame of the last finished upload
    dpc,            \* app.py load_daily_data: position
    dfile,          \* app.py load_daily_data: file_id chosen after the list
    daily_downloaded, \* app.py load_daily_data: the bytes get_media returned
    fpc,            \* fetch_and_upload.py: position of the script in fetch_nse_data
    fi,             \* fetch_nse_data: loop variable i
    fnow,           \* the day datetime.now() falls on
    fstart,         \* the day fetch_nse_data was called on
    exchange,       \* what bhav_copy_with_delivery does for each date_str
    attempts,       \* fetch_nse_data: the days asked for so far, in order
    fetched         \* fetch_nse_data: the returned pair

hvars == <<drive, nextId, today, market, wpc, current_date, full_data, wfiles,
           rpc, rfile, downloaded, published>>

avars == <<history_file, daily_file, timeframe, history_data, daily_data,
           analysis_df, filtered_df, apc>>

cvars == <<raw_columns, hist_columns, daily_columns, daily_deliv_col, page, cpc>>

\* The Drive itself is shared by the history and the daily pipeline
wvars == <<today, market, wpc, current_date, full_data, wfiles, rpc, rfile,
           downloaded, published>>

dvars == <<upc, udf, ufiles, runs, last_written, dpc, dfile, daily_downloaded>>

fvars == <<fpc, fi, fnow, fstart, exchange, attempts, fetched>>

vars == <<hvars, avars, cvars, dvars, fvars>>

\* What the history pipeline leaves alone, and what the dashboard run leaves alone
outsideH == <<avars, cvars, dvars, fvars>>

outsideA == <<hvars, cvars, dvars, fvars>>

outsideC == <<hvars, avars, dvars, fvars>>

outsideD == <<wvars, avars, cvars, fvars>>

outsideF == <<hvars, avars, cvars, dvars>>

\* Python's None, and the result of a finished download
None == <<"None">>

Bytes(content) == <<"bytes", content>>

------------------------------------------------------------------------------
(* Bounds of the model *)

\* Last day number the clock reaches (days are numbered so that 5, 6 are a weekend)
MaxDay == 5

\* Length of the backfill range in days; the script uses 365
BackfillDays == 2

FirstToday == MaxDay - 1

Days == (FirstToday - BackfillDays)..MaxDay

------------------------------------------------------------------------------
(* Dates and the exchange *)

weekday(d) == d % 7

IsTradingWeekday(d) == weekday(d) < 5

HISTORY_NAME == "nse_history_data.csv"
DAILY_NAME == "latest_nse_data.csv"
FOLDER_ID == "folder"

\* A day's dump of bhav_copy_with_delivery: rows of (SYMBOL, DELIV_PER). The same
\* symbol is listed once per series, so a dump can carry a symbol twice.
DayDumps ==
    { << [SYMBOL |-> "A", DELIV_PER |-> 80], [SYMBOL |-> "B", DELIV_PER |-> 90] >>,
      << [SYMBOL |-> "A", DELIV_PER |-> 80], [SYMBOL |-> "A", DELIV_PER |-> 90] >> }

\* df['Trade_Date'] = current_date
StampDate(df, d) ==
    [i \in 1..Len(df) |->
        [SYMBOL |-> df[i].SYMBOL, Trade_Date |-> d, DELIV_PER |-> df[i].DELIV_PER]]

------------------------------------------------------------------------------
(* Google Drive *)

File(id, name, parent, content) ==
    [id |-> id, name |-> name, parent |-> parent, trashed |-> FALSE,
     createdTime |-> id, content |-> content]

\* q = "name = '<name>' and trashed = false"
QueryByName(name) == {f \in drive : f.name = name /\ ~f.trashed}

\* q = "name = '<name>' and '<folder>' in parents and trashed = false"
QueryByNameInFolder(name, folder) ==
    {f \in drive : f.name = name /\ f.parent = folder /\ ~f.trashed}

Ids(files) == {f.id : f \in files}

FileById(id) == CHOOSE f \in drive : f.id = id

\* files().update(fileId, media_body): the file keeps its id and metadata
DriveUpdate(id, content) ==
    {IF f.id = id THEN [f EXCEPT !.content = content] ELSE f : f \in drive}

\* files().create(body, media_body)
DriveCreate(name, parent, content) ==
    drive \cup {File(nextId, name, parent, content)}

------------------------------------------------------------------------------
(* backfill.py *)

\* The script ends: its variables are gone until the next run
ProcessExit ==
    /\ wpc' = "idle"
    /\ current_date' = 0
    /\ full_data' = << >>
    /\ wfiles' = {}

\* lines 21-28
WStart ==
    /\ wpc = "idle"
    /\ wpc' = "loop"
    /\ current_date' = today - BackfillDays
    /\ full_data' = << >>
    /\ UNCHANGED <<drive, nextId, today, market, wfiles, rpc, rfile, downloaded,
                   published>>
    /\ UNCHANGED outsideH

\* lines 29-31, 56: a Saturday or Sunday is skipped
WSkipWeekend ==
    /\ wpc = "loop"
    /\ current_date <= today
    /\ ~IsTradingWeekday(current_date)
    /\ current_date' = current_date + 1
    /\ UNCHANGED <<drive, nextId, today, market, wpc, full_data, wfiles, rpc, rfile,
                   downloaded, published>>
    /\ UNCHANGED outsideH

\* lines 37-45, 56: the day's dump is stamped and appended
WFetchOk ==
    /\ wpc = "loop"
    /\ current_date <= today
    /\ IsTradingWeekday(current_date)
    /\ full_data' = full_data \o StampDate(market[current_date], current_date)
    /\ current_date' = current_date + 1
    /\ UNCHANGED <<drive, nextId, today, market, wpc, wfiles, rpc, rfile,
                   downloaded, published>>
    /\ UNCHANGED outsideH

\* lines 39, 46-47, 56: None or an empty frame
WFetchEmpty ==
    /\ wpc = "loop"
    /\ current_date <= today
    /\ IsTradingWeekday(current_date)
    /\ current_date' = current_date + 1
    /\ UNCHANGED <<drive, nextId, today, market, wpc, full_data, wfiles, rpc, rfile,
                   downloaded, published>>
    /\ UNCHANGED outsideH

\* lines 49-51, 56: the request raised, the day is skipped
WFetchError ==
    /\ wpc = "loop"
    /\ current_date <= today
    /\ IsTradingWeekday(current_date)
    /\ current_date' = current_date + 1
    /\ UNCHANGED <<drive, nextId, today, market, wpc, full_data, wfiles, rpc, rfile,
                   downloaded, published>>
    /\ UNCHANGED outsideH

\* lines 29, 59-76, 104-105: the loop ends; an empty frame ends the run, otherwise
\* the whole frame is serialised into csv_buffer before any Drive call
WLoopEnd ==
    /\ wpc = "loop"
    /\ current_date > today
    /\ IF full_data = << >>
         THEN /\ ProcessExit
              /\ UNCHANGED published
         ELSE /\ wpc' = "list"
              /\ published' = published \cup {full_data}
              /\ UNCHANGED <<current_date, full_data, wfiles>>
    /\ UNCHANGED <<drive, nextId, today, market, rpc, rfile, downloaded>>
    /\ UNCHANGED outsideH

\* lines 80-82
WList ==
    /\ wpc = "list"
    /\ wfiles' = Ids(QueryByName(HISTORY_NAME))
    /\ wpc' = "write"
    /\ UNCHANGED <<drive, nextId, today, market, current_date, full_data,
                   rpc, rfile, downloaded, published>>
    /\ UNCHANGED outsideH

\* A writer that sends the buffer in pieces, each piece replacing the file
WUpdateChunked ==
    /\ wpc = "write"
    /\ wfiles # {}
    /\ \E file_id \in wfiles, n \in 1..Len(full_data) :
          /\ drive' = DriveUpdate(file_id, SubSeq(full_data, 1, n))
          /\ IF n = Len(full_data) THEN ProcessExit
             ELSE UNCHANGED <<wpc, current_date, full_data, wfiles>>
    /\ UNCHANGED <<nextId, today, market, rpc, rfile, downloaded, published>>
    /\ UNCHANGED outsideH

\* lines 84-91: files[0] of the listing is overwritten with the whole buffer
WUpdate ==
    /\ wpc = "write"
    /\ wfiles # {}
    /\ \E file_id \in wfiles :
          drive' = DriveUpdate(file_id, full_data)
    /\ ProcessExit
    /\ UNCHANGED <<nextId, today, market, rpc, rfile, downloaded, published>>
    /\ UNCHANGED outsideH

\* lines 92-99: no file was listed, a new one is created with the whole buffer
WCreate ==
    /\ wpc = "write"
    /\ wfiles = {}
    /\ drive' = DriveCreate(HISTORY_NAME, FOLDER_ID, full_data)
    /\ nextId' = nextId + 1
    /\ ProcessExit
    /\ UNCHANGED <<today, market, rpc, rfile, downloaded, published>>
    /\ UNCHANGED outsideH

\* lines 79, 101-102: a Drive call raised, the run ends with "Upload Error"
WUploadError ==
    /\ wpc \in {"list", "write"}
    /\ ProcessExit
    /\ UNCHANGED <<drive, nextId, today, market, rpc, rfile, downloaded, published>>
    /\ UNCHANGED outsideH

\* The calendar: date.today() is read once, when a run starts
NextDay ==
    /\ wpc = "idle"
    /\ today < MaxDay
    /\ today' = today + 1
    /\ UNCHANGED <<drive, nextId, market, wpc, current_date, full_data, wfiles,
                   rpc, rfile, downloaded, published>>
    /\ UNCHANGED outsideH

------------------------------------------------------------------------------
(* app.py load_history_data, the Drive part *)

\* The newest file of a listing: files.sort(key=createdTime, reverse=True); files[0]
Newest(files) == CHOOSE f \in files : \A g \in files : g.createdTime <= f.createdTime

\* lines 72-77: list, None when nothing is listed, else pick the newest file
RList ==
    /\ rpc = "idle"
    /\ LET files == QueryByName(HISTORY_NAME) IN
         IF files = {}
           THEN /\ downloaded' = None
                /\ UNCHANGED <<rpc, rfile>>
           ELSE /\ rfile' = Newest(files).id
                /\ rpc' = "listed"
                /\ UNCHANGED downloaded
    /\ UNCHANGED <<drive, nextId, today, market, wpc, current_date, full_data, wfiles,
                   published>>
    /\ UNCHANGED outsideH

\* lines 78-79: get_media(fileId).execute()
RDownload ==
    /\ rpc = "listed"
    /\ downloaded' = Bytes(FileById(rfile).content)
    /\ rpc' = "idle"
    /\ UNCHANGED <<drive, nextId, today, market, wpc, current_date, full_data, wfiles,
                   rfile, published>>
    /\ UNCHANGED outsideH

------------------------------------------------------------------------------
(* The history pipeline: one backfill job and one dashboard reader *)

\* The history pipeline is not running (the Drive aside)
WIdle ==
    /\ today = FirstToday
    /\ market = << >>
    /\ wpc = "off"
    /\ current_date = 0
    /\ full_data = << >>
    /\ wfiles = {}
    /\ rpc = "off"
    /\ rfile = 0
    /\ downloaded = None
    /\ published = {}

\* The history pipeline is not running and the Drive is empty
HIdle ==
    /\ drive = {}
    /\ nextId = 1
    /\ WIdle

\* No daily upload or daily load is running
DIdle ==
    /\ upc = "off"
    /\ udf = 0
    /\ ufiles = {}
    /\ runs = 0
    /\ last_written = [id |-> 0, df |-> 0]
    /\ dpc = "off"
    /\ dfile = 0
    /\ daily_downloaded = None

\* fetch_nse_data is not running
FIdle ==
    /\ fpc = "off"
    /\ fi = 0
    /\ fnow = 0
    /\ fstart = 0
    /\ exchange = << >>
    /\ attempts = << >>
    /\ fetched = << >>

\* No column resolution is running
CIdle ==
    /\ raw_columns = << >>
    /\ hist_columns = << >>
    /\ daily_columns = << >>
    /\ daily_deliv_col = << >>
    /\ page = [kind |-> "none", headers |-> << >>]
    /\ cpc = "off"

\* The dashboard is not running
AIdle ==
    /\ history_file = [found |-> FALSE, rows |-> << >>]
    /\ daily_file = << >>
    /\ timeframe = "Last 1 Day"
    /\ history_data = [found |-> FALSE, rows |-> << >>]
    /\ daily_data = << >>
    /\ analysis_df = << >>
    /\ filtered_df = << >>
    /\ apc = "off"

HInit ==
    /\ FIdle
    /\ drive = {}
    /\ nextId = 1
    /\ today = FirstToday
    /\ \E dump \in DayDumps : market = [d \in {x \in Days : IsTradingWeekday(x)} |-> dump]
    /\ wpc = "idle"
    /\ current_date = 0
    /\ full_data = << >>
    /\ wfiles = {}
    /\ rpc = "idle"
    /\ rfile = 0
    /\ downloaded = None
    /\ published = {}
    /\ AIdle
    /\ CIdle
    /\ DIdle

HNext ==
    \/ WStart \/ WSkipWeekend \/ WFetchOk \/ WFetchEmpty \/ WFetchError
    \/ WLoopEnd \/ WList \/ WUpdate \/ WCreate \/ WUploadError
    \/ NextDay
    \/ RList \/ RDownload

Spec == HInit /\ [][HNext]_vars

------------------------------------------------------------------------------
(* The history archive as the dashboard finds it *)

\* app.py lines 72-79: the content of the newest nse_history_data.csv, empty when none
Archive ==
    IF QueryByName(HISTORY_NAME) = {} THEN << >>
    ELSE Newest(QueryByName(HISTORY_NAME)).content

Key(r) == <<r.SYMBOL, r.Trade_Date>>

Keys(rows) == {Key(rows[i]) : i \in 1..Len(rows)}

DatesOf(rows) == {rows[i].Trade_Date : i \in 1..Len(rows)}

RowsOf(rows) == {rows[i] : i \in 1..Len(rows)}

NoDuplicateKeys(rows) ==
    \A i, j \in 1..Len(rows) : i # j => Key(rows[i]) # Key(rows[j])

\* The trading weekdays of the range a run started today walks over
RunDates == {d \in (today - BackfillDays)..today : IsTradingWeekday(d)}

\* A backfill run ends in this step
RunEnds == wpc # "idle" /\ wpc' = "idle"

\* C1 (as claimed): the archive never holds two rows with the same (symbol, trade
\* date), and a run over dates the archive already covers leaves the archive as
\* it was.
C1_ReingestionIdempotent ==
    /\ [](NoDuplicateKeys(Archive))
    /\ [][(RunEnds /\ Archive # << >> /\ RunDates \subseteq DatesOf(Archive))
             => Archive' = Archive]_vars

\* C2 (as claimed): a run replaces only the archive rows whose (symbol, date) key
\* is in the data it ingested; every other archive row, older dates included, is
\* still in the archive after the run.
C2_MergeFrame ==
    [][RunEnds =>
        \A r \in RowsOf(Archive) :
            Key(r) \notin Keys(full_data) => r \in RowsOf(Archive')]_vars

\* C3: whatever the interleaving of the writer's list / update / create with the
\* reader's list / download, the bytes the reader obtains are a complete buffer
\* of some backfill run, never a part of one.
C3_ReaderSeesCompleteVersion ==
    downloaded # None => \E buffer \in published : downloaded = Bytes(buffer)

\* C3 witness: the reader listed the file before the writer overwrote it and
\* downloaded afterwards, while a further run is between its list and its write.
C3_Witness ==
    /\ downloaded # None
    /\ rpc = "idle"
    /\ wpc = "write"
    /\ wfiles # {}
    /\ downloaded # Bytes(full_data)
    /\ Cardinality(published) >= 2

------------------------------------------------------------------------------
(* app.py, DATA PREP: the frames and their cells *)

\* A csv cell is a number (a delivery percent in tenths of a percent, or the
\* ISO text of a day number), or BadText: text that is neither ("-", "abc", "").
BadText == -2

\* pandas NaT / NaN, what errors='coerce' puts in place of BadText
NaT == -1

NaN == -1

\* p percent in the unit of the DELIV_PER cells
Pct(p) == p * 10

\* line 90: pd.to_datetime(df[date_col], errors='coerce')
to_datetime(cell) == IF cell = BadText THEN NaT ELSE cell

\* lines 161, 185: pd.to_numeric(col, errors='coerce')
to_numeric(cell) == IF cell = BadText THEN NaN ELSE cell

\* line 161: .fillna(0)
fillna0(v) == IF v = NaN THEN 0 ELSE v

\* Lexicographic order of the ticker strings
SymbolRank(s) == CASE s = "A" -> 1 [] s = "B" -> 2

\* line 192: days = 5 if timeframe == "Last 1 Week" else 20
WeekDays == 5

MonthDays == 20

WindowDays(tf) == IF tf = "Last 1 Week" THEN WeekDays ELSE MonthDays

\* lines 209-210
LowerBound == 80

UpperBound == 98

\* lines 87-90 of load_history_data: every row is kept, its date is coerced
LoadHistoryRows(rows) ==
    [i \in 1..Len(rows) |->
        [SYMBOL |-> rows[i].SYMBOL,
         Trade_Date |-> to_datetime(rows[i].Trade_Date),
         DELIV_PER |-> rows[i].DELIV_PER]]

\* line 161: the daily delivery column made numeric, NaN filled with 0
PrepDailyRows(rows) ==
    [i \in 1..Len(rows) |->
        [SYMBOL |-> rows[i].SYMBOL,
         DELIV_PER |-> fillna0(to_numeric(rows[i].DELIV_PER))]]

------------------------------------------------------------------------------
(* app.py lines 178-196: the history aggregation *)

\* Order of sort_values(['SYMBOL', 'Trade_Date']): NaT sorts last in its symbol
DateBefore(x, y) == x # NaT /\ (y = NaT \/ x < y)

RowBefore(a, b) ==
    \/ SymbolRank(a.SYMBOL) < SymbolRank(b.SYMBOL)
    \/ a.SYMBOL = b.SYMBOL /\ DateBefore(a.Trade_Date, b.Trade_Date)

\* r put into a sorted frame behind every row that is not after it (stable)
InsertRow(sorted, r) ==
    LET notAfter == {i \in 1..Len(sorted) : ~RowBefore(r, sorted[i])}
        p == IF notAfter = {} THEN 0
             ELSE CHOOSE i \in notAfter : \A j \in notAfter : j <= i
    IN SubSeq(sorted, 1, p) \o <<r>> \o SubSeq(sorted, p + 1, Len(sorted))

RECURSIVE sort_values(_)
\* line 178: history_data.sort_values(['SYMBOL', 'Trade_Date'])
sort_values(rows) ==
    IF rows = << >> THEN << >>
    ELSE InsertRow(sort_values(SubSeq(rows, 1, Len(rows) - 1)), rows[Len(rows)])

\* line 185: DELIV_PER made numeric
NumericRows(rows) ==
    [i \in 1..Len(rows) |-> [rows[i] EXCEPT !.DELIV_PER = to_numeric(@)]]

IsSymbol(s, r) == r.SYMBOL = s

\* line 195: groupby('SYMBOL').tail(days), the rows of one symbol
GroupTail(sorted, s, days) ==
    LET group == SelectSeq(sorted, LAMBDA r : IsSymbol(s, r))
        first == IF Len(group) > days THEN Len(group) - days + 1 ELSE 1
    IN SubSeq(group, first, Len(group))

RECURSIVE SumValues(_)
SumValues(rows) ==
    IF rows = << >> THEN 0
    ELSE rows[1].DELIV_PER + SumValues(Tail(rows))

IsNumber(r) == r.DELIV_PER # NaN

\* line 195: .mean() skips NaN; the mean is kept as the exact fraction sum / cnt,
\* cnt = 0 standing for a NaN mean
Mean(rows) ==
    LET nums == SelectSeq(rows, IsNumber)
    IN [sum |-> SumValues(nums), cnt |-> Len(nums)]

SymbolsOf(rows) == {rows[i].SYMBOL : i \in 1..Len(rows)}

RECURSIVE SymbolsAscending(_)
\* The group keys in the order groupby gives them (sorted)
SymbolsAscending(syms) ==
    IF syms = {} THEN << >>
    ELSE LET s == CHOOSE x \in syms : \A y \in syms : SymbolRank(x) <= SymbolRank(y)
         IN <<s>> \o SymbolsAscending(syms \ {s})

\* lines 178-196: grouped, one row per symbol with its Avg_Delivery
Grouped(rows, days) ==
    LET hist_sorted == NumericRows(sort_values(rows))
        keys == SymbolsAscending(SymbolsOf(rows))
    IN [k \in 1..Len(keys) |->
          [SYMBOL |-> keys[k],
           Avg_Delivery |-> Mean(GroupTail(hist_sorted, keys[k], days))]]

\* lines 173-174, 204-205: the daily view, Avg_Delivery is the day's value
DailyView(rows) ==
    [i \in 1..Len(rows) |->
        [SYMBOL |-> rows[i].SYMBOL,
         Avg_Delivery |-> [sum |-> rows[i].DELIV_PER, cnt |-> 1]]]

------------------------------------------------------------------------------
(* app.py lines 207-211: STRICT FILTRATION *)

\* The filter with the lower bound taken strictly
InRangeStrict(avg) ==
    /\ avg.cnt > 0
    /\ avg.sum > Pct(LowerBound) * avg.cnt
    /\ avg.sum <= Pct(UpperBound) * avg.cnt

\* lines 209-210: Avg_Delivery >= 80 and Avg_Delivery <= 98; a NaN compares False
InRange(avg) ==
    /\ avg.cnt > 0
    /\ avg.sum >= Pct(LowerBound) * avg.cnt
    /\ avg.sum <= Pct(UpperBound) * avg.cnt

HasAvgInRange(r) == InRange(r.Avg_Delivery)

\* a < b for two defined means
AvgLess(a, b) == a.sum * b.cnt < b.sum * a.cnt

IndexPermutations(n) == {p \in [1..n -> 1..n] : \A i, j \in 1..n : i # j => p[i] # p[j]}

\* line 211: sort_values('Avg_Delivery', ascending=False) with the default
\* kind='quicksort', which is not stable: every descending arrangement of the
\* rows is a possible result
SortDescending(rows) ==
    {[i \in 1..Len(rows) |-> rows[p[i]]] : p \in
        {q \in IndexPermutations(Len(rows)) :
            \A i, j \in 1..Len(rows) :
                i < j => ~AvgLess(rows[q[i]].Avg_Delivery, rows[q[j]].Avg_Delivery)}}

------------------------------------------------------------------------------
(* One run of the dashboard script over the files it loaded *)

\* lines 150, 87-98: load_history_data returned None or the frame with coerced dates
LoadHistory ==
    /\ apc = "load"
    /\ history_data' =
          IF history_file.found
            THEN [found |-> TRUE, rows |-> LoadHistoryRows(history_file.rows)]
            ELSE [found |-> FALSE, rows |-> << >>]
    /\ apc' = "prep"
    /\ UNCHANGED <<history_file, daily_file, timeframe, daily_data, analysis_df,
                   filtered_df>>
    /\ UNCHANGED outsideA

\* lines 156-161
PrepDaily ==
    /\ apc = "prep"
    /\ daily_data' = PrepDailyRows(daily_file)
    /\ apc' = "analyze"
    /\ UNCHANGED <<history_file, daily_file, timeframe, history_data, analysis_df,
                   filtered_df>>
    /\ UNCHANGED outsideA

\* lines 172-175
AnalyzeDay ==
    /\ apc = "analyze"
    /\ timeframe = "Last 1 Day"
    /\ analysis_df' = DailyView(daily_data)
    /\ apc' = "filter"
    /\ UNCHANGED <<history_file, daily_file, timeframe, history_data, daily_data,
                   filtered_df>>
    /\ UNCHANGED outsideA

\* lines 188-190: Trade_Date.min() of a frame without any valid date is NaT
HasValidDate(rows) == \E i \in 1..Len(rows) : rows[i].Trade_Date # NaT

\* lines 177-197
AnalyzeWindow ==
    /\ apc = "analyze"
    /\ timeframe # "Last 1 Day"
    /\ history_data.found
    /\ HasValidDate(history_data.rows)
    /\ analysis_df' = Grouped(history_data.rows, WindowDays(timeframe))
    /\ apc' = "filter"
    /\ UNCHANGED <<history_file, daily_file, timeframe, history_data, daily_data,
                   filtered_df>>
    /\ UNCHANGED outsideA

\* lines 189-190: NaT.date() raises ValueError, the script run ends with the error
AnalyzeWindowRaises ==
    /\ apc = "analyze"
    /\ timeframe # "Last 1 Day"
    /\ history_data.found
    /\ ~HasValidDate(history_data.rows)
    /\ apc' = "error"
    /\ UNCHANGED <<history_file, daily_file, timeframe, history_data, daily_data,
                   analysis_df, filtered_df>>
    /\ UNCHANGED outsideA

\* lines 202-205: no history, the daily view is used instead
AnalyzeFallback ==
    /\ apc = "analyze"
    /\ timeframe # "Last 1 Day"
    /\ ~history_data.found
    /\ analysis_df' = DailyView(daily_data)
    /\ apc' = "filter"
    /\ UNCHANGED <<history_file, daily_file, timeframe, history_data, daily_data,
                   filtered_df>>
    /\ UNCHANGED outsideA

\* lines 208-211
Filter ==
    /\ apc = "filter"
    /\ filtered_df' \in SortDescending(SelectSeq(analysis_df, HasAvgInRange))
    /\ apc' = "done"
    /\ UNCHANGED <<history_file, daily_file, timeframe, history_data, daily_data,
                   analysis_df>>
    /\ UNCHANGED outsideA

------------------------------------------------------------------------------
(* The input files of a dashboard run *)

\* Number of free rows of a history file, and of rows of a daily file
MaxFreeRows == 2

MaxDailyRows == 3

Timeframes == {"Last 1 Day", "Last 1 Week", "Last 1 Month"}

Symbols == {"A", "B"}

SeqsUpTo(S, n) == UNION {[1..k -> S] : k \in 0..n}

\* n rows of symbol A, one per trade date 1..n, each at 80 percent
Filler(n) ==
    [d \in 1..n |-> [SYMBOL |-> "A", Trade_Date |-> d, DELIV_PER |-> Pct(LowerBound)]]

\* History row counts around the two windows
FillerCounts == {0, WeekDays - 1, WeekDays, MonthDays - 1, MonthDays}

FreeHistoryRows ==
    [SYMBOL : Symbols,
     Trade_Date : {1, MonthDays + 1, BadText},
     DELIV_PER : {Pct(LowerBound), Pct(UpperBound) + 10, BadText}]

HistoryFiles ==
    {Filler(n) \o t : n \in FillerCounts, t \in SeqsUpTo(FreeHistoryRows, MaxFreeRows)}

DailyRows ==
    [SYMBOL : Symbols,
     DELIV_PER : {Pct(LowerBound) - 1, Pct(LowerBound), Pct(UpperBound),
                  Pct(UpperBound) + 10, BadText}]

DailyFiles == SeqsUpTo(DailyRows, MaxDailyRows) \ {<< >>}

\* A windowed view over a history file, or any view without or with a small one
AInit ==
    /\ FIdle
    /\ HIdle
    /\ CIdle
    /\ DIdle
    /\ \/ /\ timeframe \in Timeframes \ {"Last 1 Day"}
          /\ \E rows \in HistoryFiles : history_file = [found |-> TRUE, rows |-> rows]
          /\ daily_file = <<[SYMBOL |-> "A", DELIV_PER |-> Pct(LowerBound)]>>
       \/ /\ timeframe \in Timeframes
          /\ history_file = [found |-> FALSE, rows |-> << >>]
          /\ daily_file \in DailyFiles
    /\ history_data = [found |-> FALSE, rows |-> << >>]
    /\ daily_data = << >>
    /\ analysis_df = << >>
    /\ filtered_df = << >>
    /\ apc = "load"

ANext ==
    \/ LoadHistory \/ PrepDaily
    \/ AnalyzeDay \/ AnalyzeWindow \/ AnalyzeWindowRaises \/ AnalyzeFallback
    \/ Filter

SpecAgg == AInit /\ [][ANext]_vars

------------------------------------------------------------------------------
(* The aggregation and the accumulation list *)

\* Two means are the same number, or both undefined
SameMean(a, b) ==
    \/ a.cnt = 0 /\ b.cnt = 0
    \/ a.cnt > 0 /\ b.cnt > 0 /\ a.sum * b.cnt = b.sum * a.cnt

\* The history view was computed in this run
WindowViewDone ==
    /\ apc \in {"filter", "done"}
    /\ timeframe # "Last 1 Day"
    /\ history_data.found

\* The n most recent of a set of dates
RecentDates(dates, n) == {d \in dates : Cardinality({e \in dates : e > d}) < n}

\* The trailing average as the specification words it: the mean of the non-null
\* values of the symbol's rows on its n most recent distinct trade dates
TrailingAverage(rows, s, n) ==
    LET numeric == NumericRows(rows)
        dated(r) == r.SYMBOL = s /\ r.Trade_Date # NaT
        dates == {numeric[i].Trade_Date : i \in {k \in 1..Len(numeric) : dated(numeric[k])}}
        inWindow(r) == dated(r) /\ r.Trade_Date \in RecentDates(dates, n)
    IN Mean(SelectSeq(numeric, inWindow))

AllDated(rows) == \A i \in 1..Len(rows) : rows[i].Trade_Date # NaT

DropUndated(rows) == SelectSeq(rows, LAMBDA r : r.Trade_Date # NaT)

\* C4 (as claimed, on archives whose rows all carry a date): the Avg_Delivery of
\* every symbol equals the mean of its non-null values on its N most recent
\* distinct trade dates, N = 5 or 20.
C4_TrailingAverageOverDistinctDates ==
    (WindowViewDone /\ AllDated(history_data.rows)) =>
        \A k \in 1..Len(analysis_df) :
            SameMean(analysis_df[k].Avg_Delivery,
                     TrailingAverage(history_data.rows, analysis_df[k].SYMBOL,
                                     WindowDays(timeframe)))

\* C5 (as claimed): rows with a null date are kept by the load, and the windowed
\* averages are those of the archive without its null-date rows.
C5_NullDateNeverContributes ==
    WindowViewDone =>
        /\ Len(history_data.rows) = Len(history_file.rows)
        /\ \A k \in 1..Len(analysis_df) :
              SameMean(analysis_df[k].Avg_Delivery,
                       Mean(GroupTail(NumericRows(sort_values(DropUndated(history_data.rows))),
                                      analysis_df[k].SYMBOL, WindowDays(timeframe))))

\* C6 (as claimed): the list is in descending order of Avg_Delivery, and rows with
\* equal averages are in ascending symbol order.
C6_DeterministicOrder ==
    apc = "done" =>
        \A i, j \in 1..Len(filtered_df) :
            i < j =>
                \/ AvgLess(filtered_df[j].Avg_Delivery, filtered_df[i].Avg_Delivery)
                \/ /\ SameMean(filtered_df[i].Avg_Delivery, filtered_df[j].Avg_Delivery)
                   /\ SymbolRank(filtered_df[i].SYMBOL) <= SymbolRank(filtered_df[j].SYMBOL)

\* Number of rows of a frame equal to r
Count(rows, r) == Cardinality({i \in 1..Len(rows) : rows[i] = r})

\* C7: the list holds exactly the rows of analysis_df whose average a is defined
\* and satisfies 80 <= a <= 98, both bounds included; a row at 79.9, at 99 or
\* with no defined average is not in it.
C7_ListIsInclusiveRange ==
    apc = "done" =>
        /\ \A k \in 1..Len(analysis_df) :
              LET a == analysis_df[k].Avg_Delivery
                  member == /\ a.cnt > 0
                            /\ 800 * a.cnt <= a.sum
                            /\ a.sum <= 980 * a.cnt
              IN Count(filtered_df, analysis_df[k]) =
                    IF member THEN Count(analysis_df, analysis_df[k]) ELSE 0
        /\ \A k \in 1..Len(filtered_df) : Count(analysis_df, filtered_df[k]) > 0

\* C7 witness: a finished list that holds a row at exactly 80 and a row at exactly
\* 98, computed from a frame that also has a row at 99.
C7_Witness ==
    /\ apc = "done"
    /\ \E i, j \in 1..Len(filtered_df) :
          /\ filtered_df[i].Avg_Delivery = [sum |-> 800, cnt |-> 1]
          /\ filtered_df[j].Avg_Delivery = [sum |-> 980, cnt |-> 1]
    /\ \E k \in 1..Len(analysis_df) :
          analysis_df[k].Avg_Delivery = [sum |-> 990, cnt |-> 1]

------------------------------------------------------------------------------
(* app.py: column names. A header is the sequence of its characters. *)

H_SYMBOL == <<"S", "Y", "M", "B", "O", "L">>

H_CLOSE_PR == <<"C", "L", "O", "S", "E", "_", "P", "R">>

H_CLOSE_PRICE == <<"C", "L", "O", "S", "E", "_", "P", "R", "I", "C", "E">>

H_DELIV_PER == <<"D", "E", "L", "I", "V", "_", "P", "E", "R">>

H_DELIVERY_PER == <<"D", "E", "L", "I", "V", "E", "R", "Y", "_", "P", "E", "R">>

H_Trade_Date == <<"T", "r", "a", "d", "e", "_", "D", "a", "t", "e">>

H_DATE1 == <<"D", "A", "T", "E", "1">>

H_Date == <<"D", "a", "t", "e">>

\* The header "%DlyQttoTradedQty" with its quote characters, and % Deliv
H_QuotedDlyQt == <<"\"", "%", "D", "l", "y", "Q", "t", "t", "o", "T", "r", "a", "d", "e", "d", "Q", "t", "y", "\"">>

H_PctDeliv == <<"%", " ", "D", "e", "l", "i", "v">>

H_DELIV_QTY == <<"D", "E", "L", "I", "V", "_", "Q", "T", "Y">>

\* The markers the daily resolution looks for
M_DELIV == <<"D", "E", "L", "I", "V">>

M_PER == <<"P", "E", "R">>

M_PERCENT == <<"%">>

\* Python's `sub in s`
Contains(sub, s) ==
    \E k \in 0..(Len(s) - Len(sub)) : SubSeq(s, k + 1, k + Len(sub)) = sub

\* str.replace('"', '')
RemoveQuotes(s) == SelectSeq(s, LAMBDA ch : ch # "\"")

RECURSIVE LStrip(_)
LStrip(s) == IF s # << >> /\ s[1] = " " THEN LStrip(Tail(s)) ELSE s

RECURSIVE RStrip(_)
RStrip(s) ==
    IF s # << >> /\ s[Len(s)] = " " THEN RStrip(SubSeq(s, 1, Len(s) - 1)) ELSE s

\* str.strip()
Strip(s) == LStrip(RStrip(s))

\* lines 50-52: clean_column_names
clean_column_names(columns) ==
    [i \in 1..Len(columns) |-> Strip(RemoveQuotes(columns[i]))]

\* next((c for c in candidates if ...), None); the empty header stands for None
NoColumn == << >>

Has(columns, c) == \E i \in 1..Len(columns) : columns[i] = c

Lowest(S) == CHOOSE i \in S : \A j \in S : i <= j

\* The first column among those at the indexes `hits`, None when there is none
FirstOf(columns, hits) ==
    IF hits = {} THEN NoColumn ELSE columns[Lowest(hits)]

\* line 157: "DELIV" in c and ("PER" in c or "%" in c)
IsDelivPer(c) ==
    Contains(M_DELIV, c) /\ (Contains(M_PER, c) \/ Contains(M_PERCENT, c))

\* line 158: "%" in c
HasPercent(c) == Contains(M_PERCENT, c)

\* lines 157-158
ResolveDailyDelivCol(columns) ==
    LET first == FirstOf(columns, {i \in 1..Len(columns) : IsDelivPer(columns[i])})
    IN IF first # NoColumn
         THEN first
         ELSE FirstOf(columns, {i \in 1..Len(columns) : HasPercent(columns[i])})

\* line 82: the columns read_csv keeps under usecols
HistoryUsecols ==
    {H_SYMBOL, H_CLOSE_PR, H_CLOSE_PRICE, H_DELIV_PER, H_DELIVERY_PER, H_Trade_Date,
     H_DATE1}

InUsecols(c) == c \in HistoryUsecols

\* df.rename(columns={old: new})
Rename(columns, old, new) ==
    [i \in 1..Len(columns) |-> IF columns[i] = old THEN new ELSE columns[i]]

\* df[name] = ...: the column is replaced, or added as the last column
Assign(columns, name) ==
    IF Has(columns, name) THEN columns ELSE Append(columns, name)

\* lines 89-90
WithTradeDate(columns) ==
    LET candidates == <<H_Trade_Date, H_DATE1, H_Date>>
        date_col == FirstOf(candidates, {i \in 1..3 : Has(columns, candidates[i])})
    IN IF date_col # NoColumn THEN Assign(columns, H_Trade_Date) ELSE columns

\* lines 92-93
WithClosePrice(columns) ==
    LET candidates == <<H_CLOSE_PR, H_CLOSE_PRICE>>
        close_col == FirstOf(candidates, {i \in 1..2 : Has(columns, candidates[i])})
    IN IF close_col # NoColumn THEN Rename(columns, close_col, H_CLOSE_PRICE) ELSE columns

\* lines 95-96
WithDelivPer(columns) ==
    LET candidates == <<H_DELIV_PER, H_DELIVERY_PER>>
        deliv_col == FirstOf(candidates, {i \in 1..2 : Has(columns, candidates[i])})
    IN IF deliv_col # NoColumn THEN Rename(columns, deliv_col, H_DELIV_PER) ELSE columns

\* lines 87-96
NormalizeHistoryColumns(columns) ==
    WithDelivPer(WithClosePrice(WithTradeDate(clean_column_names(columns))))

------------------------------------------------------------------------------
(* One script run over a csv header row: load_history_data, then the daily
   column resolution of the DATA PREP section *)

\* line 82: read_csv keeps the columns named in usecols
ReadHistoryUsecols ==
    /\ cpc = "read"
    /\ hist_columns' = SelectSeq(raw_columns, InUsecols)
    /\ cpc' = "normalize"
    /\ UNCHANGED <<raw_columns, daily_columns, daily_deliv_col, page>>
    /\ UNCHANGED outsideC

\* lines 83-85: read_csv raised ValueError, the file is read again with all columns
ReadHistoryAll ==
    /\ cpc = "read"
    /\ hist_columns' = raw_columns
    /\ cpc' = "normalize"
    /\ UNCHANGED <<raw_columns, daily_columns, daily_deliv_col, page>>
    /\ UNCHANGED outsideC

\* lines 87-98
NormalizeHistory ==
    /\ cpc = "normalize"
    /\ hist_columns' = NormalizeHistoryColumns(hist_columns)
    /\ cpc' = "clean"
    /\ UNCHANGED <<raw_columns, daily_columns, daily_deliv_col, page>>
    /\ UNCHANGED outsideC

\* line 156
CleanDaily ==
    /\ cpc = "clean"
    /\ daily_columns' = clean_column_names(raw_columns)
    /\ cpc' = "resolve"
    /\ UNCHANGED <<raw_columns, hist_columns, daily_deliv_col, page>>
    /\ UNCHANGED outsideC

\* lines 157-158
ResolveDaily ==
    /\ cpc = "resolve"
    /\ daily_deliv_col' = ResolveDailyDelivCol(daily_columns)
    /\ cpc' = "branch"
    /\ UNCHANGED <<raw_columns, hist_columns, daily_columns, page>>
    /\ UNCHANGED outsideC

\* lines 160-330: a column was resolved, the dashboard is rendered
RenderDashboard ==
    /\ cpc = "branch"
    /\ daily_deliv_col # NoColumn
    /\ page' = [kind |-> "dashboard", headers |-> << >>]
    /\ cpc' = "done"
    /\ UNCHANGED <<raw_columns, hist_columns, daily_columns, daily_deliv_col>>
    /\ UNCHANGED outsideC

\* line 160: no column was resolved; the if has no else, the script ends with
\* nothing but the page title
EndWithoutOutput ==
    /\ cpc = "branch"
    /\ daily_deliv_col = NoColumn
    /\ page' = [kind |-> "title only", headers |-> << >>]
    /\ cpc' = "done"
    /\ UNCHANGED <<raw_columns, hist_columns, daily_columns, daily_deliv_col>>
    /\ UNCHANGED outsideC

\* Longest header row
MaxHeaders == 3

\* The four spellings of the delivery-percent header
DeliveryVariants == {H_QuotedDlyQt, H_DELIV_PER, H_DELIVERY_PER, H_PctDeliv}

RawHeaders == DeliveryVariants \cup {H_SYMBOL, H_CLOSE_PRICE, H_Trade_Date, H_DELIV_QTY}

\* Header rows: no header twice
HeaderRows ==
    {row \in SeqsUpTo(RawHeaders, MaxHeaders) :
        /\ row # << >>
        /\ \A i, j \in 1..Len(row) : i # j => row[i] # row[j]}

CInit ==
    /\ FIdle
    /\ HIdle
    /\ AIdle
    /\ DIdle
    /\ raw_columns \in HeaderRows
    /\ hist_columns = << >>
    /\ daily_columns = << >>
    /\ daily_deliv_col = NoColumn
    /\ page = [kind |-> "none", headers |-> << >>]
    /\ cpc = "read"

CNext ==
    \/ ReadHistoryUsecols \/ ReadHistoryAll \/ NormalizeHistory
    \/ CleanDaily \/ ResolveDaily
    \/ RenderDashboard \/ EndWithoutOutput

SpecCols == CInit /\ [][CNext]_vars

\* v is the only delivery-percent spelling in the header row
OnlyVariant(v) ==
    /\ Has(raw_columns, v)
    /\ \A w \in DeliveryVariants \ {v} : ~Has(raw_columns, w)

\* C8 (as claimed): when no header resolves to the delivery-percent column the
\* run ends in a schema-resolution error that shows the headers received.
C8_UnresolvedIsReportedWithHeaders ==
    (cpc = "done" /\ daily_deliv_col = NoColumn) =>
        /\ page.kind = "schema error"
        /\ page.headers = daily_columns

\* C9 (as claimed): each of the four spellings, when it is the delivery header of
\* the row, is the column the daily resolution selects, and the history loader
\* turns it into the canonical DELIV_PER column.
C9_VariantsResolveAlike ==
    cpc = "done" =>
        \A v \in DeliveryVariants :
            OnlyVariant(v) =>
                /\ daily_deliv_col = Strip(RemoveQuotes(v))
                /\ Has(hist_columns, H_DELIV_PER)

------------------------------------------------------------------------------
(* fetch_and_upload.py upload_to_drive, run after run, and app.py load_daily_data *)

\* Number of upload runs
MaxRuns == 3

\* lines 65-67, 41-44: a run starts with the frame it fetched (numbered by run)
\* and writes it to the local latest_nse_data.csv
UStart ==
    /\ upc = "idle"
    /\ runs < MaxRuns
    /\ runs' = runs + 1
    /\ udf' = runs + 1
    /\ upc' = "list"
    /\ UNCHANGED <<drive, nextId, ufiles, last_written, dpc, dfile, daily_downloaded>>
    /\ UNCHANGED outsideD

\* lines 47-49
UList ==
    /\ upc = "list"
    /\ ufiles' = Ids(QueryByNameInFolder(DAILY_NAME, FOLDER_ID))
    /\ upc' = "write"
    /\ UNCHANGED <<drive, nextId, udf, runs, last_written, dpc, dfile, daily_downloaded>>
    /\ UNCHANGED outsideD

\* A run that creates a file although the listing found one
UUpdateAsCreate ==
    /\ upc = "write"
    /\ ufiles # {}
    /\ drive' = DriveCreate(DAILY_NAME, FOLDER_ID, udf)
    /\ nextId' = nextId + 1
    /\ last_written' = [id |-> nextId, df |-> udf]
    /\ upc' = "idle"
    /\ ufiles' = {}
    /\ UNCHANGED <<udf, runs, dpc, dfile, daily_downloaded>>
    /\ UNCHANGED outsideD

\* lines 53-57: files[0] of the listing gets the new content
UUpdate ==
    /\ upc = "write"
    /\ ufiles # {}
    /\ \E file_id \in ufiles :
          /\ drive' = DriveUpdate(file_id, udf)
          /\ last_written' = [id |-> file_id, df |-> udf]
    /\ upc' = "idle"
    /\ ufiles' = {}
    /\ UNCHANGED <<nextId, udf, runs, dpc, dfile, daily_downloaded>>
    /\ UNCHANGED outsideD

\* lines 58-62: nothing was listed, a new file is created in the folder
UCreate ==
    /\ upc = "write"
    /\ ufiles = {}
    /\ drive' = DriveCreate(DAILY_NAME, FOLDER_ID, udf)
    /\ nextId' = nextId + 1
    /\ last_written' = [id |-> nextId, df |-> udf]
    /\ upc' = "idle"
    /\ UNCHANGED <<udf, ufiles, runs, dpc, dfile, daily_downloaded>>
    /\ UNCHANGED outsideD

\* lines 48, 56, 61: a Drive call raised; nothing catches it, the run ends
UFail ==
    /\ upc \in {"list", "write"}
    /\ upc' = "idle"
    /\ ufiles' = {}
    /\ UNCHANGED <<drive, nextId, udf, runs, last_written, dpc, dfile, daily_downloaded>>
    /\ UNCHANGED outsideD

\* app.py lines 57-62: list by name; None when nothing is listed, else files[0],
\* whose place in the listing Drive decides
DList ==
    /\ dpc = "idle"
    /\ LET files == QueryByName(DAILY_NAME) IN
         IF files = {}
           THEN /\ daily_downloaded' = None
                /\ UNCHANGED <<dpc, dfile>>
           ELSE /\ dfile' \in Ids(files)
                /\ dpc' = "listed"
                /\ UNCHANGED daily_downloaded
    /\ UNCHANGED <<drive, nextId, upc, udf, ufiles, runs, last_written>>
    /\ UNCHANGED outsideD

\* app.py lines 63-65
DDownload ==
    /\ dpc = "listed"
    /\ daily_downloaded' = Bytes(FileById(dfile).content)
    /\ dpc' = "idle"
    /\ UNCHANGED <<drive, nextId, upc, udf, ufiles, runs, last_written, dfile>>
    /\ UNCHANGED outsideD

\* The folder before the first run: empty, or holding the file of an earlier run,
\* which the user may have moved to the trash
DInit ==
    /\ FIdle
    /\ WIdle
    /\ AIdle
    /\ CIdle
    /\ \/ /\ drive = {}
          /\ nextId = 1
          /\ last_written = [id |-> 0, df |-> 0]
       \/ /\ drive = {File(1, DAILY_NAME, FOLDER_ID, 0)}
          /\ nextId = 2
          /\ last_written = [id |-> 1, df |-> 0]
       \/ /\ drive = {[File(1, DAILY_NAME, FOLDER_ID, 0) EXCEPT !.trashed = TRUE]}
          /\ nextId = 2
          /\ last_written = [id |-> 0, df |-> 0]
    /\ upc = "idle"
    /\ udf = 0
    /\ ufiles = {}
    /\ runs = 0
    /\ dpc = "idle"
    /\ dfile = 0
    /\ daily_downloaded = None

DNext ==
    \/ UStart \/ UList \/ UUpdate \/ UCreate \/ UFail
    \/ DList \/ DDownload

SpecDaily == DInit /\ [][DNext]_vars

\* An upload run finishes its write in this step
UploadCompletes == upc = "write" /\ upc' = "idle" /\ drive' # drive

LiveDailyInFolder == QueryByNameInFolder(DAILY_NAME, FOLDER_ID)

------------------------------------------------------------------------------
(* fetch_and_upload.py fetch_nse_data and the script's main block *)

\* line 24: range(0, 5)
Attempts == 5

\* Number of midnights that may pass while fetch_nse_data runs
MaxMidnights == 1

\* The day the script is started on
FetchDay == Attempts

\* The days a run can ask for
FetchDays == (FetchDay - Attempts + 1)..(FetchDay + MaxMidnights)

\* line 26: date_obj.strftime("%d-%m-%Y")
DateStr(day) == <<"%d-%m-%Y", day>>

\* the frame the exchange serves for a day
Bhavcopy(day) == <<"bhavcopy", day>>

\* line 31: what the call does: a table with rows, an empty table, None, or raise
Outcomes == {"data", "empty", "None", "raise"}

\* line 25: datetime.now() is read in every iteration
date_obj == fnow - fi

\* lines 24-34: the call returns a non-empty table, the function returns it
FetchData ==
    /\ fpc = "loop"
    /\ fi < Attempts
    /\ exchange[DateStr(date_obj)] = "data"
    /\ attempts' = Append(attempts, date_obj)
    /\ fetched' = [df |-> Bhavcopy(date_obj), date_str |-> DateStr(date_obj)]
    /\ fpc' = "returned"
    /\ UNCHANGED <<fi, fnow, fstart, exchange>>
    /\ UNCHANGED outsideF

\* lines 24-32: the call returns None or an empty table, the loop goes on
FetchEmpty ==
    /\ fpc = "loop"
    /\ fi < Attempts
    /\ exchange[DateStr(date_obj)] \in {"empty", "None"}
    /\ attempts' = Append(attempts, date_obj)
    /\ fi' = fi + 1
    /\ UNCHANGED <<fpc, fnow, fstart, exchange, fetched>>
    /\ UNCHANGED outsideF

\* lines 35-37: the call raises, the exception is printed and the loop goes on
FetchRaises ==
    /\ fpc = "loop"
    /\ fi < Attempts
    /\ exchange[DateStr(date_obj)] = "raise"
    /\ attempts' = Append(attempts, date_obj)
    /\ fi' = fi + 1
    /\ UNCHANGED <<fpc, fnow, fstart, exchange, fetched>>
    /\ UNCHANGED outsideF

\* line 38: the range is exhausted
FetchNone ==
    /\ fpc = "loop"
    /\ fi = Attempts
    /\ fetched' = [df |-> None, date_str |-> None]
    /\ fpc' = "returned"
    /\ UNCHANGED <<fi, fnow, fstart, exchange, attempts>>
    /\ UNCHANGED outsideF

\* line 25: midnight passes between two readings of datetime.now()
Midnight ==
    /\ fpc = "loop"
    /\ fi \in 1..(Attempts - 1)
    /\ fnow - fstart < MaxMidnights
    /\ fnow' = fnow + 1
    /\ UNCHANGED <<fpc, fi, fstart, exchange, attempts, fetched>>
    /\ UNCHANGED outsideF

\* lines 66-67
MainUpload ==
    /\ fpc = "returned"
    /\ fetched.df # None
    /\ fpc' = "upload"
    /\ UNCHANGED <<fi, fnow, fstart, exchange, attempts, fetched>>
    /\ UNCHANGED outsideF

\* lines 68-69
MainGiveUp ==
    /\ fpc = "returned"
    /\ fetched.df = None
    /\ fpc' = "gave up"
    /\ UNCHANGED <<fi, fnow, fstart, exchange, attempts, fetched>>
    /\ UNCHANGED outsideF

\* line 65: the script calls fetch_nse_data; the exchange answers each date_str
\* in its own way
FInit ==
    /\ HIdle
    /\ AIdle
    /\ CIdle
    /\ DIdle
    /\ fpc = "loop"
    /\ fi = 0
    /\ fnow = FetchDay
    /\ fstart = FetchDay
    /\ exchange \in [{DateStr(d) : d \in FetchDays} -> Outcomes]
    /\ attempts = << >>
    /\ fetched = << >>

\* The steps of the script
FProgram ==
    \/ FetchData \/ FetchEmpty \/ FetchRaises \/ FetchNone
    \/ MainUpload \/ MainGiveUp

FNext ==
    \/ FetchData \/ FetchEmpty \/ FetchRaises \/ FetchNone
    \/ MainUpload \/ MainGiveUp
    \/ Midnight

\* The interpreter keeps executing the script
SpecFetch == FInit /\ [][FNext]_vars /\ WF_vars(FProgram)

\* The days the claim names: today, today-1, ..., today-4
ClaimedDays == [k \in 1..Attempts |-> fstart - (k - 1)]

YieldsData(day) == exchange[DateStr(day)] = "data"

\* The places in ClaimedDays whose fetch yields a non-empty table
Yielding == {k \in 1..Attempts : YieldsData(ClaimedDays[k])}

\* C11: fetch_nse_data returns after at most 5 attempts, made for today,
\* today-1, ..., today-4 in that order; it returns the table and date string of
\* the most recent of these days that yields data, whatever the days before it
\* did, and (None, None) exactly when none of the five yields data.
C11_FetchTriesFiveDays ==
    /\ [](/\ Len(attempts) <= Attempts
          /\ \A k \in 1..Len(attempts) : attempts[k] = ClaimedDays[k])
    /\ [](fpc = "returned" =>
             IF Yielding = {}
               THEN fetched = [df |-> None, date_str |-> None]
               ELSE LET k == Lowest(Yielding) IN
                      /\ fetched = [df |-> Bhavcopy(ClaimedDays[k]),
                                    date_str |-> DateStr(ClaimedDays[k])]
                      /\ Len(attempts) = k)
    /\ <>(fpc \in {"upload", "gave up"})

====
